---- MODULE Spec2Model ----
(***************************************************************************)
(* A model of spectrogram.py: spectrogram staging by chunks, the grouped   *)
(* train/test split, the CNN's shape arithmetic, the batch iterator        *)
(* create_dataloader, forward_by_batches, and the training loop with its   *)
(* end-of-epoch HMM fit and evaluations.                                   *)
(*                                                                         *)
(* Python indices are kept 0-based as VALUES; TLA+ sequences are 1-based,  *)
(* so the Python element a[k] is the TLA+ element a[k+1].                  *)
(***************************************************************************)
EXTENDS Integers, Sequences, FiniteSets, TLC

VARIABLES
    phase,      \* which part of the script the behaviour exercises
    \* ---- create_dataloader on its own (lines 198-213)
    ldGen,      \* the generator object
    ldOut,      \* the batches it has yielded so far, in order
    ldDone,     \* TRUE once next() has raised StopIteration
    \* ---- the script from line 123 on
    pc,         \* the script's position
    pid, y, Z,  \* the loaded participant ids and labels (line 62); the staged rows
    mask_test, mask_train,
    y_train, y_test, pid_train, pid_test, Z_train, Z_test,
    \* ---- spectrogram staging (lines 78-91)
    X_shape,    \* X.shape = <<windows, channels, samples per window>>
    Z_shape,    \* the shape the memmap was allocated with (<<>> before line 79)
    Z_src,      \* per row of the memmap: the row of X it was computed from, -1 if none
    Z_writes,   \* per row of the memmap: how many times it was assigned
    Z_dirty,    \* rows assigned since the last flush
    Z_writeable,\* Z.flags.writeable
    st_i,       \* the loop variable i of line 84
    st_chunks,  \* the number of windows handed to each stft call so far
    st_z,       \* the row read at line 107
    \* ---- one call of CNN.forward (lines 143-184)
    cx_mode,    \* the module's mode at the call, "train" or "eval"
    cx_in,      \* the shape of the input x
    cx,         \* the shape of the activation after the modules applied so far
    cx_layer,   \* how many modules of self.cnn have been applied
    cx_sizes,   \* the spatial size <<H, W>> after each ReLU so far
    cx_out,     \* the shape forward returned (<<>> before it returns)
    cx_pc,      \* "run", "returned" or "raised"
    \* ---- model, training loop and helpers (lines 215-337)
    cnn_mode,   \* cnn.training: "train" or "eval" ("none" before line 264)
    grad_enabled, \* torch.is_grad_enabled()
    weights,    \* the number of optimizer steps the network's weights have taken
    epoch,      \* the loop variable i of line 285
    dataloader, \* the generator of line 286
    x, target,  \* the windows and the labels of the mini-batch of line 287
    loss_history, kappa_history, accuracy_history,
    hmm,        \* prior, emission, transition of line 306
    fw_caller,  \* forward_by_batches: which call of it is running
    fw_args,    \* the arrays its caller was called with, by name
    fw_gen,     \* its create_dataloader generator
    fw_Y,       \* the rows of the outputs appended to Y so far
    fw_batches, \* len(Y)
    fwd_obs,    \* every forward pass so far: where, in which mode, grad on or off
    plotted     \* the number of points of each plotted curve

loaderVars == <<ldGen, ldOut, ldDone>>
dataVars == <<pid, y, Z>>
splitVars == <<mask_test, mask_train, y_train, y_test, pid_train, pid_test,
               Z_train, Z_test>>
stageVars == <<X_shape, Z_shape, Z_src, Z_writes, Z_dirty, Z_writeable, st_i,
               st_chunks, st_z>>
cnnVars == <<cx_mode, cx_in, cx, cx_layer, cx_sizes, cx_out, cx_pc>>
fwVars == <<fw_caller, fw_args, fw_gen, fw_Y, fw_batches>>
histVars == <<loss_history, kappa_history, accuracy_history>>
trainVars == <<cnn_mode, grad_enabled, weights, epoch, dataloader, x, target, histVars, hmm,
               fwVars, fwd_obs, plotted>>
vars == <<phase, loaderVars, pc, dataVars, splitVars, stageVars, cnnVars, trainVars>>

\* ------------------------------------------------------------------ bounds
MaxLoaderLen == 3     \* longest dataset handed to create_dataloader alone
MaxLoaderBatch == 3   \* largest batch_size tried there
MaxLabel == 1         \* labels drawn from 0..MaxLabel where all arrays are enumerated
FullPermLen == 3      \* np.random.permutation: every permutation up to this length
MaxSplitLen == 3      \* longest dataset whose every pid/label array is enumerated
MaxPid == 4           \* participant ids drawn from 1..MaxPid
MaxChunks == 2        \* staging: datasets of up to about MaxChunks full chunks
MaxOff == 2           \* ... their lengths within MaxOff of a multiple of the chunk
MaxWinLen == 3030     \* shape arithmetic: window lengths 1..MaxWinLen
MaxShapeRows == 2     \* shape arithmetic: datasets of 1..MaxShapeRows windows
MaxBatchRows == 3     \* CNN.forward alone: batches of 1..MaxBatchRows images
MaxImgOff == 2        \* ... of images within MaxImgOff of 129 x 126 on each axis
MaxEpochBatches == 2  \* training: up to about MaxEpochBatches mini-batches a pass
MaxFwdBatches == 1    \* ... and a training set of MaxFwdBatches forward batches

\* --------------------------------------------------------------- constants
NPERSEG == 256
NOVERLAP == 232
CHUNK == 4096         \* the step of range(0, len(X), 4096) and of the slices
DOC_FRAMES == 126     \* "a spectrogram of size 129x126"
NUM_CLASSES == 5      \* output_size
in_channels == 3
num_filters_init == 8
num_epoch == 10
batch_size == 32
FWD_BATCH == 1024     \* batch_size of forward_by_batches
NUM_PLOTS == 10

\* ----------------------------------------------------------------- helpers
Min(a, b) == IF a < b THEN a ELSE b
CeilDiv(a, b) == (a + b - 1) \div b
Range(s) == {s[k] : k \in 1..Len(s)}

\* np.arange(n): <<0, 1, ..., n-1>>
arange(n) == [k \in 1..n |-> k - 1]

\* All orderings of 0..n-1.
AllPermutations(n) ==
    {p \in [1..n -> 0..(n-1)] : \A a, b \in 1..n : a # b => p[a] # p[b]}

\* np.random.permutation(np.arange(n)): any ordering of 0..n-1.  Beyond
\* FullPermLen the orderings are too many to enumerate and three are drawn:
\* the identity, the reversal and the rotation by one.
permutation(n) ==
    IF n <= FullPermLen
    THEN AllPermutations(n)
    ELSE {arange(n), [k \in 1..n |-> n - k], [k \in 1..n |-> k % n]}

\* a[idxs]: numpy integer-array indexing, rows in the order idxs names them.
Take(a, idxs) == [j \in 1..Len(idxs) |-> a[idxs[j] + 1]]

\* ------------------------------------------------- create_dataloader (198-213)
\* An optional argument: y=None is NoneArg.
NoneArg == [some |-> FALSE, val |-> <<>>]
Some(v) == [some |-> TRUE, val |-> v]

\* Calling the generator function runs none of its body: it only binds the
\* arguments.  The body starts at the first next().
create_dataloader(Z_, y_, bsz, shuffle) ==
    [Z |-> Z_, y |-> y_, batch_size |-> bsz, shuffle |-> shuffle,
     st |-> "created", idxs |-> <<>>, i |-> 0]

\* idxs as chosen on entry to the body (lines 202-205).
\* A variant that shuffles whatever the flag says.
DLIdxsAlwaysShuffled(n, shuffle) == permutation(n)

DLIdxs(n, shuffle) == IF shuffle THEN permutation(n) ELSE {arange(n)}

\* idxs[i:i+batch_size] (line 207): a Python slice clips at the end.
\* A variant that drops the element at the slice's upper end.
IdxsBatchShort(idxs, i, bsz) ==
    SubSeq(idxs, i + 1, Min(i + bsz, Len(idxs)) - 1)

IdxsBatch(idxs, i, bsz) ==
    SubSeq(idxs, i + 1, Min(i + bsz, Len(idxs)))

\* What one iteration of the body yields (lines 207-213).  idxs_batch is kept
\* beside the yielded arrays as a ghost field.
DLYield(g, idxs, i) ==
    LET idxs_batch == IdxsBatch(idxs, i, g.batch_size)
    IN [idxs_batch |-> idxs_batch,
        Z_batch |-> Take(g.Z, idxs_batch),
        y_batch |-> IF g.y.some THEN Some(Take(g.y.val, idxs_batch)) ELSE NoneArg]

\* One next() on the generator: the set of possible outcomes, each the
\* generator afterwards, whether it stopped, and what it yielded.
\* range(0, len(idxs), batch_size) (line 206) starts at 0, steps by batch_size
\* and ends before len(idxs).  When the body returns, the generator's frame, and
\* idxs and i with it, is gone.
DLNext(g) ==
    LET starts == IF g.st = "created" THEN DLIdxs(Len(g.Z), g.shuffle) ELSE {g.idxs}
        i0 == IF g.st = "created" THEN 0 ELSE g.i + g.batch_size
    IN {IF i0 < Len(idxs)
        THEN [gen |-> [g EXCEPT !.st = "suspended", !.idxs = idxs, !.i = i0],
              stop |-> FALSE, out |-> <<DLYield(g, idxs, i0)>>]
        ELSE [gen |-> [g EXCEPT !.st = "exhausted", !.idxs = <<>>, !.i = 0],
              stop |-> TRUE, out |-> <<>>] : idxs \in starts}

\* ------------------------------------------------------------ CNN (143-184)
Conv2d(cin, cout, kh, kw, stride, padding) ==
    [kind |-> "conv", cin |-> cin, cout |-> cout, kh |-> kh, kw |-> kw,
     stride |-> stride, padding |-> padding]
BatchNorm2d(c) ==
    [kind |-> "bn", cin |-> c, cout |-> c, kh |-> 0, kw |-> 0, stride |-> 0, padding |-> 0]
ReLU ==
    [kind |-> "relu", cin |-> 0, cout |-> 0, kh |-> 0, kw |-> 0, stride |-> 0, padding |-> 0]

\* self.cnn, the nn.Sequential of lines 147-174.
cnn_modules ==
    <<Conv2d(in_channels, num_filters_init, 5, 4, 2, 1),
      BatchNorm2d(num_filters_init), ReLU,
      Conv2d(num_filters_init, num_filters_init * 2, 4, 3, 2, 1),
      BatchNorm2d(num_filters_init * 2), ReLU,
      Conv2d(num_filters_init * 2, num_filters_init * 4, 4, 4, 2, 1),
      BatchNorm2d(num_filters_init * 4), ReLU,
      Conv2d(num_filters_init * 4, num_filters_init * 8, 4, 4, 2, 1),
      BatchNorm2d(num_filters_init * 8), ReLU,
      Conv2d(num_filters_init * 8, num_filters_init * 16, 4, 4, 2, 1),
      BatchNorm2d(num_filters_init * 16), ReLU,
      Conv2d(num_filters_init * 16, num_filters_init * 32, 4, 4, 1, 0),
      BatchNorm2d(num_filters_init * 32), ReLU,
      Conv2d(num_filters_init * 32, NUM_CLASSES, 1, 1, 1, 0)>>

\* One module applied to an activation of shape <<N, C, H, W>> in the given
\* mode: the shape it returns, or err when it raises.
\*   - Conv2d returns floor((size + 2*padding - kernel)/stride) + 1 per axis; it
\*     raises on a channel mismatch and on a kernel larger than the padded input.
\*   - BatchNorm2d keeps the shape; in train mode it raises ValueError ("Expected
\*     more than 1 value per channel when training") when N*H*W = 1.
\*   - ReLU keeps the shape.
ApplyModule(m, act, mode) ==
    IF m.kind = "conv"
    THEN IF \/ act[2] # m.cin
            \/ act[3] + 2 * m.padding < m.kh
            \/ act[4] + 2 * m.padding < m.kw
         THEN [err |-> TRUE, shape |-> act]
         ELSE [err |-> FALSE,
               shape |-> <<act[1], m.cout,
                           (act[3] + 2 * m.padding - m.kh) \div m.stride + 1,
                           (act[4] + 2 * m.padding - m.kw) \div m.stride + 1>>]
    ELSE IF m.kind = "bn"
    THEN IF act[2] # m.cin \/ (mode = "train" /\ act[1] * act[3] * act[4] = 1)
         THEN [err |-> TRUE, shape |-> act]
         ELSE [err |-> FALSE, shape |-> act]
    ELSE [err |-> FALSE, shape |-> act]

\* .view(x.shape[0], -1) on an activation of shape act (line 184).
View(act, n) == <<n, (act[1] * act[2] * act[3] * act[4]) \div n>>

\* self.cnn(x) from module number from on.
RECURSIVE Sequential(_, _, _)
Sequential(act, mode, from) ==
    IF from > Len(cnn_modules) THEN [err |-> FALSE, shape |-> act]
    ELSE LET r == ApplyModule(cnn_modules[from], act, mode)
         IN IF r.err THEN r ELSE Sequential(r.shape, mode, from + 1)

\* cnn(x): CNN.forward on an input of shape act in the given mode.
forward(act, mode) ==
    LET r == Sequential(act, mode, 1)
    IN IF r.err THEN r ELSE [err |-> FALSE, shape |-> View(r.shape, act[1])]

CnnIdle ==
    /\ cx_mode = "train"
    /\ cx_in = <<>> /\ cx = <<>> /\ cx_layer = 0 /\ cx_sizes = <<>>
    /\ cx_out = <<>> /\ cx_pc = "idle"

\* The training variables before line 257, and while another part is exercised.
NoCall == [Z |-> "", y |-> "", pid |-> ""]
NoHmm == [epoch |-> -1, weights |-> -1, Z |-> "", y |-> ""]
TrainIdle ==
    /\ cnn_mode = "none" /\ grad_enabled = TRUE /\ weights = 0 /\ epoch = 0
    /\ dataloader = create_dataloader(<<>>, NoneArg, 1, FALSE)
    /\ x = <<>> /\ target = <<>>
    /\ loss_history = <<>>
    /\ kappa_history = [train |-> <<>>, test |-> <<>>]
    /\ accuracy_history = [train |-> <<>>, test |-> <<>>]
    /\ hmm = NoHmm
    /\ fw_caller = "" /\ fw_args = NoCall
    /\ fw_gen = create_dataloader(<<>>, NoneArg, 1, FALSE)
    /\ fw_Y = <<>> /\ fw_batches = 0
    /\ fwd_obs = {}
    /\ plotted = <<>>

\* The loader's variables while another part is exercised.
LoaderIdle ==
    /\ ldGen = create_dataloader(<<>>, NoneArg, 1, FALSE)
    /\ ldOut = <<>>
    /\ ldDone = TRUE

\* ------------------------------------------------ spectrogram staging (78-91)
\* The shape of Zxx for one window of winlen samples, as
\* scipy.signal.stft(x, nperseg=NPERSEG, noverlap=NOVERLAP, axis=-1,
\* detrend='constant') computes it with its defaults boundary='zeros',
\* padded=True, nfft=None, return_onesided=True:
\*   - nperseg is cut down to the input length when it exceeds it;
\*   - noverlap >= nperseg raises ValueError;
\*   - the input is extended by nperseg//2 zeros at both ends, then zero-padded
\*     at the end to a whole number of hops;
\*   - there are nfft//2+1 frequency bins and (len - noverlap)//hop segments.
\* err is TRUE when the call raises.
\* A variant without the boundary extension (boundary=None).
stftShapeNoBoundary(winlen) ==
    LET nperseg == IF NPERSEG > winlen THEN winlen ELSE NPERSEG
        nstep == nperseg - NOVERLAP
    IN IF NOVERLAP >= nperseg
       THEN [err |-> TRUE, shape |-> <<>>]
       ELSE LET nadd == ((-(winlen - nperseg)) % nstep) % nperseg
                padded == winlen + nadd
            IN [err |-> FALSE,
                shape |-> <<nperseg \div 2 + 1, (padded - NOVERLAP) \div nstep>>]

stftShape(winlen) ==
    LET nperseg == IF NPERSEG > winlen THEN winlen ELSE NPERSEG
        nstep == nperseg - NOVERLAP
        ext == winlen + 2 * (nperseg \div 2)
    IN IF NOVERLAP >= nperseg
       THEN [err |-> TRUE, shape |-> <<>>]
       ELSE LET nadd == ((-(ext - nperseg)) % nstep) % nperseg
                padded == ext + nadd
            IN [err |-> FALSE,
                shape |-> <<nperseg \div 2 + 1, (padded - NOVERLAP) \div nstep>>]

\* The per-window shape the memmap is allocated with (line 82).
AllocShape(winlen) == <<NPERSEG \div 2 + 1, winlen \div (NPERSEG - NOVERLAP) + 1>>

\* numpy assignment dst[...] = src of equally long shapes: every axis of src
\* equals that of dst or is 1.
Broadcastable(src, dst) ==
    /\ Len(src) = Len(dst)
    /\ \A a \in 1..Len(src) : src[a] = dst[a] \/ src[a] = 1

\* The 0-based rows a[i:i+CHUNK] covers in an array of n rows.
\* A variant one row short.
ChunkRowsShort(i, n) == i..(Min(i + CHUNK - 1, n) - 1)

ChunkRows(i, n) == i..(Min(i + CHUNK, n) - 1)

\* Z.flush(): nothing assigned stays unwritten to the file.
flush(dirty) == {}

StageIdle ==
    /\ X_shape = <<>> /\ Z_shape = <<>>
    /\ Z_src = <<>> /\ Z_writes = <<>> /\ Z_dirty = {}
    /\ Z_writeable = FALSE
    /\ st_i = 0 /\ st_chunks = <<>> /\ st_z = -1

\* The script at line 78 with X loaded: n windows of winlen samples.
AtStage(n, winlen) ==
    /\ phase = "stage"
    /\ pc = "alloc"
    /\ X_shape = <<n, in_channels, winlen>>
    /\ Z_shape = <<>>
    /\ Z_src = <<>> /\ Z_writes = <<>> /\ Z_dirty = {}
    /\ Z_writeable = FALSE
    /\ st_i = 0 /\ st_chunks = <<>> /\ st_z = -1
    /\ pid = <<>> /\ y = <<>> /\ Z = <<>>
    /\ mask_test = <<>> /\ mask_train = <<>>
    /\ y_train = <<>> /\ y_test = <<>>
    /\ pid_train = <<>> /\ pid_test = <<>>
    /\ Z_train = <<>> /\ Z_test = <<>>
    /\ LoaderIdle
    /\ CnnIdle
    /\ TrainIdle

\* Dataset lengths around the multiples of the chunk; a loaded dataset holds at
\* least one window.
StageLens ==
    {n \in {k * CHUNK + d : k \in 0..MaxChunks, d \in (-MaxOff)..MaxOff} : n >= 1}

\* Window lengths for which line 82 allocates DOC_FRAMES frames: the first is a
\* whole number of hops, the second is not.
StageWinLens ==
    {(DOC_FRAMES - 1) * (NPERSEG - NOVERLAP), (DOC_FRAMES - 1) * (NPERSEG - NOVERLAP) + 1}

StageInit == \E n \in StageLens, winlen \in StageWinLens : AtStage(n, winlen)

\* Every window length up to MaxWinLen, the longest first.
ShapeInit ==
    \E n \in 1..MaxShapeRows, short \in 0..(MaxWinLen - 1) : AtStage(n, MaxWinLen - short)

\* Lines 79-83 and the loop's entry at line 84: a fresh w+ memmap, all zeros.
StageAlloc ==
    /\ phase = "stage" /\ pc = "alloc"
    /\ Z_shape' = <<X_shape[1], X_shape[2]>> \o AllocShape(X_shape[3])
    /\ Z_src' = [k \in 1..X_shape[1] |-> -1]
    /\ Z_writes' = [k \in 1..X_shape[1] |-> 0]
    /\ Z_writeable' = TRUE
    /\ st_i' = 0
    /\ pc' = "stage_loop"
    /\ UNCHANGED <<phase, loaderVars, dataVars, splitVars, cnnVars, trainVars, X_shape, Z_dirty,
                   st_chunks, st_z>>

\* One iteration of the loop, lines 85-89: the stft of X[i:i+CHUNK], its
\* log-magnitude, the assignment to Z[i:i+CHUNK], the flush.  Row j of the
\* transformed chunk comes from row j of the chunk (stft works along the last
\* axis; log and abs are elementwise).
StageChunk ==
    /\ phase = "stage" /\ pc = "stage_loop"
    /\ st_i < X_shape[1]
    /\ LET n == X_shape[1]
           xrows == ChunkRows(st_i, n)
           zrows == ChunkRows(st_i, Z_shape[1])
           sh == stftShape(X_shape[3])
           batch_shape == <<Cardinality(xrows), X_shape[2]>> \o sh.shape
           dst_shape == <<Cardinality(zrows)>> \o Tail(Z_shape)
       IN IF sh.err \/ ~Broadcastable(batch_shape, dst_shape)
          THEN /\ pc' = "error"
               /\ st_chunks' = IF sh.err THEN st_chunks
                                ELSE Append(st_chunks, Cardinality(xrows))
               /\ UNCHANGED <<Z_src, Z_writes, Z_dirty, st_i>>
          ELSE /\ Z_src' = [k \in 1..Len(Z_src) |->
                               IF (k - 1) \in zrows THEN k - 1 ELSE Z_src[k]]
               /\ Z_writes' = [k \in 1..Len(Z_writes) |->
                               IF (k - 1) \in zrows THEN Z_writes[k] + 1 ELSE Z_writes[k]]
               /\ Z_dirty' = flush(Z_dirty \cup zrows)
               /\ st_chunks' = Append(st_chunks, Cardinality(xrows))
               /\ st_i' = st_i + CHUNK
               /\ pc' = "stage_loop"
    /\ UNCHANGED <<phase, loaderVars, dataVars, splitVars, cnnVars, trainVars, X_shape, Z_shape,
                   Z_writeable, st_z>>

\* The loop's exit and line 90.
StageSeal ==
    /\ phase = "stage" /\ pc = "stage_loop"
    /\ st_i >= X_shape[1]
    /\ Z_writeable' = FALSE
    /\ pc' = "visualize"
    /\ UNCHANGED <<phase, loaderVars, dataVars, splitVars, cnnVars, trainVars, X_shape, Z_shape, Z_src,
                   Z_writes, Z_dirty, st_i, st_chunks, st_z>>

\* Line 107, z = Z[idxs[j]][0]: the script's next use of Z, a read of some row
\* (here the first or the last).
StageRead ==
    /\ phase = "stage" /\ pc = "visualize"
    /\ \E k \in {1, Len(Z_src)} : st_z' = Z_src[k]
    /\ pc' = "visualized"
    /\ UNCHANGED <<phase, loaderVars, dataVars, splitVars, cnnVars, trainVars, X_shape, Z_shape, Z_src,
                   Z_writes, Z_dirty, Z_writeable, st_i, st_chunks>>

\* ------------------------------------------------ the grouped split (123-132)
pids_test == <<2, 3>>

\* np.isin(a, test_elements): elementwise, a[k] is one of test_elements.
\* A variant that looks only at the first of test_elements.
isinFirstOnly(a, test_elements) ==
    [k \in 1..Len(a) |-> Len(test_elements) > 0 /\ a[k] = test_elements[1]]

isin(a, test_elements) ==
    [k \in 1..Len(a) |-> \E e \in 1..Len(test_elements) : a[k] = test_elements[e]]

\* ~mask: elementwise negation.
Invert(mask) == [k \in 1..Len(mask) |-> ~mask[k]]

\* The rows lo..hi of a whose mask entry is True, in the order of a (by halves,
\* to keep the recursion shallow).
RECURSIVE MaskSelectIn(_, _, _, _)
MaskSelectIn(a, mask, lo, hi) ==
    IF lo > hi THEN <<>>
    ELSE IF lo = hi THEN (IF mask[lo] THEN <<a[lo]>> ELSE <<>>)
    ELSE LET mid == (lo + hi) \div 2
         IN MaskSelectIn(a, mask, lo, mid) \o MaskSelectIn(a, mask, mid + 1, hi)

\* a[mask]: numpy boolean-mask indexing, the rows whose mask entry is True, in
\* the order of a.
MaskSelect(a, mask) == MaskSelectIn(a, mask, 1, Len(a))

\* utils.ArrayFromMask(Z, mask): the rows of Z the mask selects, read through Z
\* without copying it.
ArrayFromMask(a, mask) == MaskSelect(a, mask)

\* The variables of the script while another part is exercised.
ScriptIdle ==
    /\ pc = "idle"
    /\ pid = <<>> /\ y = <<>> /\ Z = <<>>
    /\ mask_test = <<>> /\ mask_train = <<>>
    /\ y_train = <<>> /\ y_test = <<>>
    /\ pid_train = <<>> /\ pid_test = <<>>
    /\ Z_train = <<>> /\ Z_test = <<>>

\* The script at line 123 with the arrays pid0, y0 loaded; row k of Z is the
\* spectrogram of window k.
AtSplit(pid0, y0) ==
    /\ phase = "script"
    /\ pc = "split"
    /\ pid = pid0 /\ y = y0 /\ Z = arange(Len(pid0))
    /\ mask_test = <<>> /\ mask_train = <<>>
    /\ y_train = <<>> /\ y_test = <<>>
    /\ pid_train = <<>> /\ pid_test = <<>>
    /\ Z_train = <<>> /\ Z_test = <<>>
    /\ LoaderIdle
    /\ StageIdle
    /\ CnnIdle
    /\ TrainIdle

\* The split applied to every pid and label array of up to MaxSplitLen windows.
SplitInit ==
    \E n \in 0..MaxSplitLen :
        \E pid0 \in [1..n -> 1..MaxPid], y0 \in [1..n -> 0..MaxLabel] :
            AtSplit(pid0, y0)

\* Lines 124-130.
Split ==
    /\ phase = "script"
    /\ pc = "split"
    /\ mask_test' = isin(pid, pids_test)
    /\ mask_train' = Invert(mask_test')
    /\ y_train' = MaskSelect(y, mask_train')
    /\ y_test' = MaskSelect(y, mask_test')
    /\ pid_train' = MaskSelect(pid, mask_train')
    /\ pid_test' = MaskSelect(pid, mask_test')
    /\ Z_train' = ArrayFromMask(Z, mask_train')
    /\ Z_test' = ArrayFromMask(Z, mask_test')
    /\ pc' = "model"
    /\ UNCHANGED <<phase, loaderVars, dataVars, stageVars, cnnVars, trainVars>>

\* ------------------------------------- model, helpers and training (215-337)
\* A dataset of n_train training and n_test test windows, participant after
\* participant: participant 1, then 2 and 3 (held out), then 4.
BlockPids(c1, c2, c3, c4) ==
    [k \in 1..(c1 + c2 + c3 + c4) |->
        IF k <= c1 THEN 1 ELSE IF k <= c1 + c2 THEN 2 ELSE IF k <= c1 + c2 + c3 THEN 3 ELSE 4]

\* Training-set lengths around the multiples of the mini-batch size, and at and
\* just over the multiples of the forward batch size.
SmallTrainLens ==
    {n \in {k * batch_size + d : k \in 0..MaxEpochBatches, d \in (-1)..2} : n >= 0}
LargeTrainLens == {k * FWD_BATCH + d : k \in 1..MaxFwdBatches, d \in {0, 2}}
TestLens == {0, 1, 3, NUM_PLOTS * NUM_CLASSES, FWD_BATCH + 1}

\* <<training windows, test windows>>.  The script reaches line 123 only with
\* NUM_PLOTS windows of every class to plot (lines 101-111); with the labels
\* cycling through the classes that is NUM_PLOTS * NUM_CLASSES windows or more.
TrainSizes ==
    {sz \in (SmallTrainLens \cup LargeTrainLens) \X TestLens :
        sz[1] + sz[2] >= NUM_PLOTS * NUM_CLASSES}

TrainInit ==
    \E sz \in TrainSizes :
        LET c4 == IF sz[1] >= 2 THEN 1 ELSE 0
            c3 == sz[2] \div 2
            pid0 == BlockPids(sz[1] - c4, sz[2] - c3, c3, c4)
        IN AtSplit(pid0, [k \in 1..Len(pid0) |-> (k - 1) % NUM_CLASSES])

\* The array a name is bound to.
Deref(name) ==
    CASE name = "Z_train" -> Z_train
      [] name = "Z_test" -> Z_test
      [] name = "y_train" -> y_train
      [] name = "y_test" -> y_test
      [] name = "pid_train" -> pid_train
      [] name = "pid_test" -> pid_test
      [] OTHER -> <<>>

\* The arrays each call is made with (lines 306, 309-310, 314-315).
\* A variant that fits the HMM on the test split's outputs.
CallArgsFitOnTest(caller) ==
    CASE caller = "train_hmm" -> [Z |-> "Z_test", y |-> "y_test", pid |-> ""]
      [] caller = "eval_train" -> [Z |-> "Z_train", y |-> "y_train", pid |-> "pid_train"]
      [] caller = "eval_test" -> [Z |-> "Z_test", y |-> "y_test", pid |-> "pid_test"]

CallArgs(caller) ==
    CASE caller = "train_hmm" -> [Z |-> "Z_train", y |-> "y_train", pid |-> ""]
      [] caller = "eval_train" -> [Z |-> "Z_train", y |-> "y_train", pid |-> "pid_train"]
      [] caller = "eval_test" -> [Z |-> "Z_test", y |-> "y_test", pid |-> "pid_test"]

\* The shape of a batch of m staged windows.
BatchShape(m) == <<m, in_channels, NPERSEG \div 2 + 1, DOC_FRAMES>>

\* The mode forward_by_batches leaves the network in (line 224).
\* A variant without the cnn.train() call.
ModeOnReturnKept(mode) == mode

ModeOnReturn(mode) == "train"

\* How many epochs must have completed for the loop of line 285 to end.
\* A variant that stops one epoch early.
EpochsToRunShort == num_epoch - 1

EpochsToRun == num_epoch

\* Lines 257-284: the model (a fresh nn.Module is in train mode), the loss, the
\* optimizer, the empty histories; then the loop's entry.
Setup ==
    /\ phase = "script" /\ pc = "model"
    /\ cnn_mode' = "train"
    /\ weights' = 0
    /\ loss_history' = <<>>
    /\ kappa_history' = [train |-> <<>>, test |-> <<>>]
    /\ accuracy_history' = [train |-> <<>>, test |-> <<>>]
    /\ epoch' = 0
    /\ pc' = "epoch"
    /\ UNCHANGED <<phase, loaderVars, dataVars, splitVars, stageVars, cnnVars,
                   grad_enabled, dataloader, x, target, hmm, fwVars, fwd_obs, plotted>>

\* Lines 285-286: the next epoch starts with a fresh shuffled loader.
EpochBegin ==
    /\ phase = "script" /\ pc = "epoch"
    /\ epoch < EpochsToRun
    /\ dataloader' = create_dataloader(Z_train, Some(y_train), batch_size, TRUE)
    /\ pc' = "batches"
    /\ UNCHANGED <<phase, loaderVars, dataVars, splitVars, stageVars, cnnVars,
                   cnn_mode, grad_enabled, weights, epoch, x, target, histVars, hmm,
                   fwVars, fwd_obs, plotted>>

\* Lines 287-296: one mini-batch.  The forward pass runs in the network's current
\* mode; when it raises the script ends there.
TrainStep ==
    /\ phase = "script" /\ pc = "batches"
    /\ \E r \in DLNext(dataloader) :
         /\ ~r.stop
         /\ dataloader' = r.gen
         /\ x' = r.out[1].Z_batch
         /\ target' = r.out[1].y_batch.val
         /\ fwd_obs' = fwd_obs \cup
                {[site |-> "step", mode |-> cnn_mode, grad |-> grad_enabled]}
         /\ IF forward(BatchShape(Len(r.out[1].Z_batch)), cnn_mode).err
            THEN /\ pc' = "error"
                 /\ UNCHANGED <<weights, loss_history>>
            ELSE /\ weights' = weights + 1
                 /\ loss_history' = Append(loss_history, [epoch |-> epoch, step |-> weights + 1])
                 /\ pc' = "batches"
    /\ UNCHANGED <<phase, loaderVars, dataVars, splitVars, stageVars, cnnVars,
                   cnn_mode, grad_enabled, epoch, kappa_history, accuracy_history,
                   hmm, fwVars, plotted>>

\* The loader is exhausted: the pass is over, line 306 is next.
PassDone ==
    /\ phase = "script" /\ pc = "batches"
    /\ \E r \in DLNext(dataloader) :
         /\ r.stop
         /\ dataloader' = r.gen
    /\ pc' = "train_hmm"
    /\ UNCHANGED <<phase, loaderVars, dataVars, splitVars, stageVars, cnnVars,
                   cnn_mode, grad_enabled, weights, epoch, x, target, histVars, hmm,
                   fwVars, fwd_obs, plotted>>

\* train_hmm or evaluate_model is called and calls forward_by_batches, which
\* runs to its loop (lines 218-221): Y = [], cnn.eval(), no_grad.
FbbEnter ==
    /\ phase = "script" /\ pc \in {"train_hmm", "eval_train", "eval_test"}
    /\ fw_caller' = pc
    /\ fw_args' = CallArgs(pc)
    /\ fw_gen' = create_dataloader(Deref(CallArgs(pc).Z), NoneArg, FWD_BATCH, FALSE)
    /\ fw_Y' = <<>>
    /\ fw_batches' = 0
    /\ cnn_mode' = "eval"
    /\ grad_enabled' = FALSE
    /\ pc' = "fbb_loop"
    /\ UNCHANGED <<phase, loaderVars, dataVars, splitVars, stageVars, cnnVars,
                   weights, epoch, dataloader, x, target, histVars, hmm, fwd_obs,
                   plotted>>

\* Lines 221-223: one batch is forwarded and its output appended to Y.  Row j of
\* the output of a network in eval mode depends on row j of the batch alone.
FbbBatch ==
    /\ phase = "script" /\ pc = "fbb_loop"
    /\ \E r \in DLNext(fw_gen) :
         /\ ~r.stop
         /\ fw_gen' = r.gen
         /\ fwd_obs' = fwd_obs \cup
                {[site |-> "fbb", mode |-> cnn_mode, grad |-> grad_enabled]}
         /\ IF forward(BatchShape(Len(r.out[1].Z_batch)), cnn_mode).err
            THEN /\ pc' = "error"
                 /\ UNCHANGED <<fw_Y, fw_batches>>
            ELSE /\ fw_Y' = fw_Y \o [j \in 1..Len(r.out[1].Z_batch) |->
                                        [w |-> weights, x |-> r.out[1].Z_batch[j]]]
                 /\ fw_batches' = fw_batches + 1
                 /\ pc' = "fbb_loop"
    /\ UNCHANGED <<phase, loaderVars, dataVars, splitVars, stageVars, cnnVars,
                   cnn_mode, grad_enabled, weights, epoch, dataloader, x, target,
                   histVars, hmm, fw_caller, fw_args, plotted>>

\* Lines 224-226: the loop and the no_grad block end (gradient tracking is back
\* to what it was, on), cnn.train(), torch.cat(Y), which raises on an empty
\* list, and the return.
FbbExit ==
    /\ phase = "script" /\ pc = "fbb_loop"
    /\ \E r \in DLNext(fw_gen) :
         /\ r.stop
         /\ fw_gen' = r.gen
    /\ grad_enabled' = TRUE
    /\ cnn_mode' = ModeOnReturn(cnn_mode)
    /\ pc' = IF fw_batches = 0 THEN "error" ELSE "ret"
    /\ UNCHANGED <<phase, loaderVars, dataVars, splitVars, stageVars, cnnVars,
                   weights, epoch, dataloader, x, target, histVars, hmm, fw_caller,
                   fw_args, fw_Y, fw_batches, fwd_obs, plotted>>

\* Lines 232-235 and 306: the HMM is fitted from the softmax of Y and from y.
TrainHmmFit ==
    /\ phase = "script" /\ pc = "ret" /\ fw_caller = "train_hmm"
    /\ hmm' = [epoch |-> epoch, weights |-> fw_Y[1].w, Z |-> fw_args.Z, y |-> fw_args.y]
    /\ pc' = "eval_train"
    /\ UNCHANGED <<phase, loaderVars, dataVars, splitVars, stageVars, cnnVars,
                   cnn_mode, grad_enabled, weights, epoch, dataloader, x, target,
                   histVars, fwVars, fwd_obs, plotted>>

\* Lines 239-245 and 309-317: argmax of the softmax of Y, Viterbi smoothing with
\* the current prior, emission and transition, the two scores against y and pid,
\* and their logging; after the test split's, the epoch is complete.
EvalScore ==
    /\ phase = "script" /\ pc = "ret" /\ fw_caller \in {"eval_train", "eval_test"}
    /\ LET score == [epoch |-> epoch, weights |-> fw_Y[1].w, Z |-> fw_args.Z,
                     y |-> fw_args.y, pid |-> fw_args.pid, hmm |-> hmm]
       IN IF fw_caller = "eval_train"
          THEN /\ kappa_history' =
                    [kappa_history EXCEPT !.train = Append(@, score)]
               /\ accuracy_history' =
                    [accuracy_history EXCEPT !.train = Append(@, score)]
               /\ pc' = "eval_test"
               /\ UNCHANGED epoch
          ELSE /\ kappa_history' =
                    [kappa_history EXCEPT !.test = Append(@, score)]
               /\ accuracy_history' =
                    [accuracy_history EXCEPT !.test = Append(@, score)]
               /\ pc' = "epoch"
               /\ epoch' = epoch + 1
    /\ UNCHANGED <<phase, loaderVars, dataVars, splitVars, stageVars, cnnVars,
                   cnn_mode, grad_enabled, weights, dataloader, x, target,
                   loss_history, hmm, fwVars, fwd_obs, plotted>>

\* The loop of line 285 ends.
LoopExit ==
    /\ phase = "script" /\ pc = "epoch"
    /\ epoch >= EpochsToRun
    /\ pc' = "plot"
    /\ UNCHANGED <<phase, loaderVars, dataVars, splitVars, stageVars, cnnVars,
                   trainVars>>

\* Lines 324-337: the loss curve and the two score figures, a curve per key.
Plot ==
    /\ phase = "script" /\ pc = "plot"
    /\ plotted' = [loss |-> Len(loss_history),
                   kappa |-> [train |-> Len(kappa_history.train),
                              test |-> Len(kappa_history.test)],
                   accuracy |-> [train |-> Len(accuracy_history.train),
                                 test |-> Len(accuracy_history.test)]]
    /\ pc' = "done"
    /\ UNCHANGED <<phase, loaderVars, dataVars, splitVars, stageVars, cnnVars,
                   cnn_mode, grad_enabled, weights, epoch, dataloader, x, target,
                   histVars, hmm, fwVars, fwd_obs>>

TrainNext ==
    \/ Split \/ Setup \/ EpochBegin \/ TrainStep \/ PassDone
    \/ FbbEnter \/ FbbBatch \/ FbbExit \/ TrainHmmFit \/ EvalScore
    \/ LoopExit \/ Plot

\* ------------------------------------------------- CNN.forward called alone
\* A call cnn(x) on a batch of images near 129 x 126, in either mode.
CnnInit ==
    /\ phase = "cnn"
    /\ \E n \in 1..MaxBatchRows, mode \in {"train", "eval"},
          h \in (NPERSEG \div 2 + 1 - MaxImgOff)..(NPERSEG \div 2 + 1 + MaxImgOff),
          w \in (DOC_FRAMES - MaxImgOff)..(DOC_FRAMES + MaxImgOff) :
         /\ cx_in = <<n, in_channels, h, w>>
         /\ cx_mode = mode
    /\ cx = cx_in /\ cx_layer = 0 /\ cx_sizes = <<>> /\ cx_out = <<>>
    /\ cx_pc = "run"
    /\ ScriptIdle
    /\ StageIdle
    /\ LoaderIdle
    /\ TrainIdle

\* The next module of self.cnn.
CnnModule ==
    /\ phase = "cnn" /\ cx_pc = "run"
    /\ cx_layer < Len(cnn_modules)
    /\ LET m == cnn_modules[cx_layer + 1]
           r == ApplyModule(m, cx, cx_mode)
       IN IF r.err
          THEN /\ cx_pc' = "raised"
               /\ UNCHANGED <<cx, cx_layer, cx_sizes>>
          ELSE /\ cx' = r.shape
               /\ cx_layer' = cx_layer + 1
               /\ cx_sizes' = IF m.kind = "relu"
                               THEN Append(cx_sizes, <<r.shape[3], r.shape[4]>>)
                               ELSE cx_sizes
               /\ cx_pc' = "run"
    /\ UNCHANGED <<phase, loaderVars, pc, dataVars, splitVars, stageVars, trainVars, cx_mode,
                   cx_in, cx_out>>

\* The view and the return (line 184).
CnnView ==
    /\ phase = "cnn" /\ cx_pc = "run"
    /\ cx_layer = Len(cnn_modules)
    /\ cx_out' = View(cx, cx_in[1])
    /\ cx_pc' = "returned"
    /\ UNCHANGED <<phase, loaderVars, pc, dataVars, splitVars, stageVars, trainVars, cx_mode,
                   cx_in, cx, cx_layer, cx_sizes>>

\* ----------------------------------------- create_dataloader iterated alone
LoaderInit ==
    /\ phase = "loader"
    /\ \E n \in 0..MaxLoaderLen, bsz \in 1..MaxLoaderBatch,
          shuffle \in BOOLEAN, withY \in BOOLEAN :
         \E y0 \in [1..n -> 0..MaxLabel] :
            ldGen = create_dataloader(arange(n), IF withY THEN Some(y0) ELSE NoneArg,
                                      bsz, shuffle)
    /\ ldOut = <<>>
    /\ ldDone = FALSE
    /\ ScriptIdle
    /\ StageIdle
    /\ CnnIdle
    /\ TrainIdle

\* for batch in dataloader: one next().
LoaderNext ==
    /\ phase = "loader"
    /\ ~ldDone
    /\ \E r \in DLNext(ldGen) :
         /\ ldGen' = r.gen
         /\ ldOut' = ldOut \o r.out
         /\ ldDone' = r.stop
    /\ UNCHANGED <<phase, pc, dataVars, splitVars, stageVars, cnnVars, trainVars>>

\* ------------------------------------------------------- claims: the loader
\* C2: one full iteration of create_dataloader(Z, y, batch_size, shuffle) over n
\* samples yields exactly ceil(n/batch_size) batches, every sample exactly once
\* (shuffled or not); every batch but the last holds batch_size samples, the last
\* between 1 and batch_size; and each label batch holds the labels of the samples
\* of its input batch, in the same order.
C2_LoaderPartition ==
    phase = "loader" =>
        LET n == Len(ldGen.Z)
            bs == ldGen.batch_size
        IN /\ \A b \in 1..Len(ldOut) :
                /\ Len(ldOut[b].Z_batch) >= 1
                /\ Len(ldOut[b].Z_batch) <= bs
                /\ b < Len(ldOut) => Len(ldOut[b].Z_batch) = bs
                /\ ldOut[b].y_batch.some = ldGen.y.some
                /\ ldGen.y.some =>
                     /\ Len(ldOut[b].y_batch.val) = Len(ldOut[b].Z_batch)
                     /\ \A j \in 1..Len(ldOut[b].Z_batch) :
                          ldOut[b].y_batch.val[j] = ldGen.y.val[ldOut[b].Z_batch[j] + 1]
           /\ \A k \in 0..(n - 1) :
                Cardinality({<<b, j>> \in (1..Len(ldOut)) \X (1..bs) :
                    j <= Len(ldOut[b].Z_batch) /\ ldOut[b].Z_batch[j] = k}) <= 1
           /\ ldDone =>
                /\ Len(ldOut) = CeilDiv(n, bs)
                /\ \A k \in 0..(n - 1) :
                     Cardinality({<<b, j>> \in (1..Len(ldOut)) \X (1..bs) :
                         j <= Len(ldOut[b].Z_batch) /\ ldOut[b].Z_batch[j] = k}) = 1

\* A finished shuffled pass over three labelled samples in batches of two, in an
\* order that is not the dataset's, ending in a partial batch.
C2_Witness ==
    /\ phase = "loader"
    /\ ldDone
    /\ ldGen.shuffle
    /\ ldGen.y.some
    /\ ldGen.batch_size = 2
    /\ Len(ldGen.Z) = 3
    /\ ldOut[1].Z_batch = <<2, 0>>
    /\ Len(ldOut) = 2
    /\ Len(ldOut[2].Z_batch) = 1
    /\ \E a, b \in 1..3 : ldGen.y.val[a] # ldGen.y.val[b]

\* -------------------------------------------------------- claims: the split
\* s lists the rows of the dataset that mask selects, each once, in dataset order.
SelectsInOrder(s, mask) ==
    /\ \A j \in 1..Len(s) : s[j] \in 0..(Len(mask) - 1) /\ mask[s[j] + 1]
    /\ \A j \in 1..(Len(s) - 1) : s[j] < s[j + 1]
    /\ \A k \in 1..Len(mask) : mask[k] => \E j \in 1..Len(s) : s[j] = k - 1

\* C1: a window is in the test set exactly when its participant id is in
\* pids_test; mask_train is the complement of mask_test; no participant id is in
\* both pid_train and pid_test; and y, pid and Z of each split hold the same
\* windows in the same (dataset) order.
C1_GroupedSplit ==
    (phase = "script" /\ pc # "split") =>
        /\ Len(mask_test) = Len(pid) /\ Len(mask_train) = Len(pid)
        /\ \A k \in 1..Len(pid) :
             /\ mask_test[k] <=> pid[k] \in Range(pids_test)
             /\ mask_train[k] <=> ~mask_test[k]
        /\ Range(pid_train) \cap Range(pid_test) = {}
        /\ SelectsInOrder(Z_train, mask_train)
        /\ SelectsInOrder(Z_test, mask_test)
        /\ Len(y_train) = Len(Z_train) /\ Len(pid_train) = Len(Z_train)
        /\ Len(y_test) = Len(Z_test) /\ Len(pid_test) = Len(Z_test)
        /\ \A j \in 1..Len(Z_train) :
             y_train[j] = y[Z_train[j] + 1] /\ pid_train[j] = pid[Z_train[j] + 1]
        /\ \A j \in 1..Len(Z_test) :
             y_test[j] = y[Z_test[j] + 1] /\ pid_test[j] = pid[Z_test[j] + 1]

\* A split of interleaved participants: both held-out ids and another occur, the
\* test windows are not contiguous, and the labels differ.
C1_Witness ==
    /\ phase = "script" /\ pc = "model"
    /\ pid = <<2, 1, 3>>
    /\ y = <<0, 1, 1>>
    /\ Z_test = <<0, 2>> /\ Z_train = <<1>>
    /\ pid_test = <<2, 3>> /\ pid_train = <<1>>
    /\ y_test = <<0, 1>> /\ y_train = <<1>>

\* ------------------------------------------------------ claims: the staging
Sealed == pc \in {"visualize", "visualized"}

C3_State ==
    phase = "stage" =>
        LET n == X_shape[1]
        IN /\ \A c \in 1..Len(st_chunks) : st_chunks[c] >= 1 /\ st_chunks[c] <= CHUNK
           /\ Z_dirty = {}
           /\ \A k \in 1..Len(Z_writes) :
                /\ Z_writes[k] <= 1
                /\ Z_src[k] = (IF Z_writes[k] = 1 THEN k - 1 ELSE -1)
           /\ pc = "stage_loop" =>
                /\ Z_writeable
                /\ st_i = CHUNK * Len(st_chunks)
                /\ \A k \in 1..n : Z_writes[k] = 1 <=> k - 1 < st_i
           /\ Sealed =>
                /\ ~Z_writeable
                /\ Len(Z_writes) = n
                /\ \A k \in 1..n : Z_writes[k] = 1 /\ Z_src[k] = k - 1
                /\ Len(st_chunks) = CeilDiv(n, CHUNK)
                /\ \A c \in 1..Len(st_chunks) :
                     st_chunks[c] = Min(CHUNK, n - CHUNK * (c - 1))

C3_Step ==
    (phase = "stage" /\ Sealed) =>
        /\ Z_src' = Z_src
        /\ Z_writes' = Z_writes
        /\ Z_writeable' = Z_writeable

\* C3: the chunked loop writes every row of Z exactly once: the chunks are
\* disjoint and cover rows 0..len(X)-1, a final partial chunk included; row k of
\* Z comes from row k of X; at most 4096 windows are transformed at a time; Z is
\* flushed after every chunk; after the loop Z is non-writeable and no later
\* step writes it.
C3_StagingWritesOnce == [](C3_State) /\ [][C3_Step]_vars

\* Two full chunks and a final chunk of one window, staged, sealed and read.
C3_Witness ==
    /\ phase = "stage" /\ pc = "visualized"
    /\ X_shape[1] = 2 * CHUNK + 1
    /\ st_chunks = <<CHUNK, CHUNK, 1>>
    /\ Z_writes[2 * CHUNK + 1] = 1
    /\ st_z = 2 * CHUNK

\* Every chunk the stft has transformed so far has the shape of the rows of Z
\* it is assigned to.
ChunkShapesAgree ==
    \A c \in 1..Len(st_chunks) :
        /\ ~stftShape(X_shape[3]).err
        /\ <<st_chunks[c], X_shape[2]>> \o stftShape(X_shape[3]).shape
             = <<st_chunks[c]>> \o Tail(Z_shape)

\* C6 as stated: for every window length L the allocated per-window shape
\* (NPERSEG//2+1, L//hop+1) is the shape of the STFT output of every chunk, so no
\* assignment Z[i:i+4096] = Z_batch has a shape mismatch.
C6_ShapesAlwaysAgree ==
    phase = "stage" =>
        /\ ChunkShapesAgree
        /\ st_chunks # <<>> => pc # "error"

\* C6, amended: for a window length L >= NPERSEG that is a whole number of hops
\* (NPERSEG - NOVERLAP samples), the allocated per-window shape
\* (NPERSEG//2+1, L//hop+1) is the shape of the STFT output of every chunk and no
\* assignment fails; for L = 3000 that shape is 129 x 126.
C6_ShapesAgreeOnWholeHops ==
    (/\ phase = "stage"
     /\ X_shape[3] >= NPERSEG
     /\ X_shape[3] % (NPERSEG - NOVERLAP) = 0) =>
        /\ pc # "error"
        /\ Z_shape # <<>> =>
             /\ Z_shape = <<X_shape[1], X_shape[2], NPERSEG \div 2 + 1,
                            X_shape[3] \div (NPERSEG - NOVERLAP) + 1>>
             /\ ChunkShapesAgree
             /\ X_shape[3] = 3000 => SubSeq(Z_shape, 3, 4) = <<129, 126>>

\* Windows of 3000 samples staged as 129 x 126 spectrograms.
C6_Witness ==
    /\ phase = "stage" /\ Sealed
    /\ X_shape = <<2, 3, 3000>>
    /\ Z_shape = <<2, 3, 129, 126>>
    /\ st_chunks = <<2>>
    /\ Z_writes = <<1, 1>>

\* --------------------------------------------------------- claims: the CNN
PyramidSizes == <<<<64, 63>>, <<32, 32>>, <<16, 16>>, <<8, 8>>, <<4, 4>>, <<1, 1>>>>

\* The shape arithmetic of C5 alone: on an input (N,3,129,126) the spatial size
\* after each block completed so far is the pyramid's, the last convolution keeps
\* 1 x 1, and a call that returns returns (N, 5).
PyramidShapes ==
    (phase = "cnn" /\ SubSeq(cx_in, 2, 4) = <<3, 129, 126>>) =>
        /\ cx_sizes = SubSeq(PyramidSizes, 1, Len(cx_sizes))
        /\ cx_layer = Len(cnn_modules) => SubSeq(cx, 3, 4) = <<1, 1>>
        /\ cx_pc = "returned" => (Len(cx_sizes) = 6 /\ cx_out = <<cx_in[1], 5>>)

\* C5: for an input batch of shape (N,3,129,126) the spatial size after the six
\* conv+batchnorm+ReLU blocks is 64x63, 32x32, 16x16, 8x8, 4x4, 1x1, the final
\* 1x1 convolution keeps 1x1, and forward returns an array of shape (N,5).
C5_ForwardShape ==
    (phase = "cnn" /\ SubSeq(cx_in, 2, 4) = <<3, 129, 126>>) =>
        /\ PyramidShapes
        /\ cx_pc # "raised"

\* ------------------------------------------------ claims: the training loop
\* Mini-batches in one pass over the training set.
StepsPerEpoch == CeilDiv(Len(Z_train), batch_size)

\* forward_by_batches is running, or has just returned, for this caller.
InFbb(caller) == pc \in {"fbb_loop", "ret"} /\ fw_caller = caller

\* The j-th logged score of a split was computed in epoch j-1 from the weights
\* at the end of that epoch's pass, on that split's arrays, with the HMM fitted in
\* that same epoch from those same weights.
ScoreOfEpoch(score, j, Zname, yname, pidname) ==
    /\ score.epoch = j - 1
    /\ score.weights = j * StepsPerEpoch
    /\ score.Z = Zname /\ score.y = yname /\ score.pid = pidname
    /\ score.hmm = [epoch |-> j - 1, weights |-> j * StepsPerEpoch,
                    Z |-> "Z_train", y |-> "y_train"]

\* C4: in every epoch, first all the mini-batch updates of the pass, then one HMM
\* fit from the network's outputs on the training set and the training labels
\* only, then the evaluation on the train split, then on the test split; both
\* evaluations use the HMM fitted in that same epoch; the test windows and labels
\* are never used to fit the HMM or to update the network.
C4_EpochOrder ==
    (phase = "script" /\ pc \notin {"split", "model"}) =>
        /\ pc = "batches" =>
             /\ weights >= epoch * StepsPerEpoch
             /\ weights <= (epoch + 1) * StepsPerEpoch
        /\ pc = "epoch" => weights = epoch * StepsPerEpoch
        /\ (pc \in {"batches", "epoch", "train_hmm"} \/ InFbb("train_hmm")) =>
             /\ hmm.epoch = epoch - 1
             /\ Len(kappa_history.train) = epoch
             /\ Len(kappa_history.test) = epoch
        /\ (pc = "train_hmm" \/ InFbb("train_hmm")) =>
             weights = (epoch + 1) * StepsPerEpoch
        /\ (pc \in {"eval_train", "eval_test"} \/ InFbb("eval_train") \/ InFbb("eval_test")) =>
             /\ weights = (epoch + 1) * StepsPerEpoch
             /\ hmm = [epoch |-> epoch, weights |-> weights,
                       Z |-> "Z_train", y |-> "y_train"]
             /\ Len(kappa_history.test) = epoch
        /\ (pc = "eval_train" \/ InFbb("eval_train")) =>
             Len(kappa_history.train) = epoch
        /\ (pc = "eval_test" \/ InFbb("eval_test")) =>
             Len(kappa_history.train) = epoch + 1
        /\ accuracy_history = kappa_history
        /\ \A j \in 1..Len(kappa_history.train) :
             ScoreOfEpoch(kappa_history.train[j], j, "Z_train", "y_train", "pid_train")
        /\ \A j \in 1..Len(kappa_history.test) :
             ScoreOfEpoch(kappa_history.test[j], j, "Z_test", "y_test", "pid_test")
        /\ \A j \in 1..Len(x) :
             /\ mask_train[x[j] + 1]
             /\ ~mask_test[x[j] + 1]
             /\ target[j] = y[x[j] + 1]
        /\ InFbb("train_hmm") =>
             /\ fw_args = [Z |-> "Z_train", y |-> "y_train", pid |-> ""]
             /\ \A k \in 1..Len(fw_Y) :
                  mask_train[fw_Y[k].x + 1] /\ ~mask_test[fw_Y[k].x + 1]

\* The second epoch's evaluation on the test split, after two mini-batches a
\* pass, with the HMM just fitted.
C4_Witness ==
    /\ phase = "script" /\ pc = "ret" /\ fw_caller = "eval_test"
    /\ epoch = 1
    /\ StepsPerEpoch = 2
    /\ weights = 4
    /\ hmm.epoch = 1
    /\ Len(kappa_history.train) = 2 /\ Len(kappa_history.test) = 1
    /\ Len(Z_test) = 3

\* C7: forward_by_batches(cnn, Z) goes through Z unshuffled in batches of at most
\* 1024 and concatenates the outputs in that order: for n >= 1 it returns n rows,
\* row k the network's output for sample k of Z; so the predictions handed to the
\* HMM fit, to Viterbi and to the scores line up row by row, in dataset order,
\* with the labels y and the participant ids pid of the same split.
C7_ForwardAligned ==
    (phase = "script" /\ pc \in {"fbb_loop", "ret"}) =>
        LET Zarg == Deref(fw_args.Z)
            yarg == Deref(fw_args.y)
            pidarg == Deref(fw_args.pid)
        IN /\ Len(fw_Y) = Min(Len(Zarg), fw_batches * FWD_BATCH)
           /\ \A k \in 1..Len(fw_Y) : fw_Y[k] = [w |-> weights, x |-> Zarg[k]]
           /\ pc = "ret" =>
                /\ Len(Zarg) >= 1
                /\ Len(fw_Y) = Len(Zarg)
                /\ fw_batches = CeilDiv(Len(Zarg), FWD_BATCH)
                /\ Len(yarg) = Len(fw_Y)
                /\ \A k \in 1..Len(fw_Y) : yarg[k] = y[fw_Y[k].x + 1]
                /\ \A k \in 1..(Len(fw_Y) - 1) : fw_Y[k].x < fw_Y[k + 1].x
                /\ fw_args.pid # "" =>
                     /\ Len(pidarg) = Len(fw_Y)
                     /\ \A k \in 1..Len(fw_Y) : pidarg[k] = pid[fw_Y[k].x + 1]

\* forward_by_batches returns to evaluate_model from a test split of one full
\* batch and one more window.
C7_Witness ==
    /\ phase = "script" /\ pc = "ret" /\ fw_caller = "eval_test"
    /\ Len(Z_test) = FWD_BATCH + 1
    /\ fw_batches = 2
    /\ Len(fw_Y) = FWD_BATCH + 1
    /\ fw_Y[FWD_BATCH + 1].x = Z_test[FWD_BATCH + 1]

\* C8: after k completed epochs each of the four score histories has k entries,
\* entry e the score after epoch e, and loss_history has k * ceil(n_train /
\* batch_size) entries, one per optimizer step; the loop ends after exactly
\* num_epoch epochs, and each plotted score history has num_epoch points.
C8_Histories ==
    (phase = "script" /\ pc \notin {"split", "model"}) =>
        /\ epoch >= 0 /\ epoch <= num_epoch
        /\ Len(loss_history) = weights
        /\ \A j \in 1..Len(loss_history) : loss_history[j].step = j
        /\ pc \in {"epoch", "plot", "done"} =>
             /\ Len(kappa_history.train) = epoch
             /\ Len(kappa_history.test) = epoch
             /\ Len(accuracy_history.train) = epoch
             /\ Len(accuracy_history.test) = epoch
             /\ Len(loss_history) = epoch * StepsPerEpoch
        /\ \A j \in 1..Len(kappa_history.train) :
             kappa_history.train[j].epoch = j - 1 /\ accuracy_history.train[j].epoch = j - 1
        /\ \A j \in 1..Len(kappa_history.test) :
             kappa_history.test[j].epoch = j - 1 /\ accuracy_history.test[j].epoch = j - 1
        /\ pc \in {"plot", "done"} => epoch = num_epoch
        /\ pc = "done" =>
             plotted = [loss |-> num_epoch * StepsPerEpoch,
                        kappa |-> [train |-> num_epoch, test |-> num_epoch],
                        accuracy |-> [train |-> num_epoch, test |-> num_epoch]]

\* The figures are drawn after ten epochs of two mini-batches each.
C8_Witness ==
    /\ phase = "script" /\ pc = "done"
    /\ Len(Z_train) = batch_size + 2
    /\ Len(loss_history) = 2 * num_epoch
    /\ Len(kappa_history.test) = num_epoch
    /\ plotted.loss = 2 * num_epoch

\* C9: every forward pass inside forward_by_batches runs in eval mode with
\* gradient tracking off; forward_by_batches returns with the network in train
\* mode; so every gradient step, in every epoch, runs in train mode.
C9_ModeDiscipline ==
    (phase = "script" /\ pc \notin {"split", "model"}) =>
        /\ \A o \in fwd_obs :
             /\ o.site = "fbb" => (o.mode = "eval" /\ ~o.grad)
             /\ o.site = "step" => (o.mode = "train" /\ o.grad)
        /\ pc = "fbb_loop" => (cnn_mode = "eval" /\ ~grad_enabled)
        /\ pc # "fbb_loop" => (cnn_mode = "train" /\ grad_enabled)

\* A gradient step of the second epoch, after the first epoch's three calls of
\* forward_by_batches.
C9_Witness ==
    /\ phase = "script" /\ pc = "batches"
    /\ epoch = 1
    /\ weights = StepsPerEpoch + 1
    /\ Len(kappa_history.test) = 1
    /\ [site |-> "fbb", mode |-> "eval", grad |-> FALSE] \in fwd_obs
    /\ [site |-> "step", mode |-> "train", grad |-> TRUE] \in fwd_obs
    /\ cnn_mode = "train"

Init == LoaderInit \/ SplitInit \/ StageInit \/ ShapeInit \/ CnnInit \/ TrainInit
Next ==
    \/ LoaderNext
    \/ StageAlloc \/ StageChunk \/ StageSeal \/ StageRead
    \/ CnnModule \/ CnnView
    \/ TrainNext
Spec == Init /\ [][Next]_vars
SpecLoader == LoaderInit /\ [][LoaderNext]_vars
SpecSplit == SplitInit /\ [][Split]_vars
StageNext == StageAlloc \/ StageChunk \/ StageSeal \/ StageRead
SpecStage == StageInit /\ [][StageNext]_vars
SpecShape == ShapeInit /\ [][StageNext]_vars
SpecCNN == CnnInit /\ [][CnnModule \/ CnnView]_vars
SpecTrain == TrainInit /\ [][TrainNext]_vars
====
